---- MODULE Spec2Model ----
(***************************************************************************)
(* Model of the multisig-ops report and bribe scripts:                     *)
(*   action-scripts/brownie/scripts/report_gauges.py                       *)
(*   tools/python/brownie/scripts/maxi_operations/bribe_ecosystems.py      *)
(*                                                                         *)
(* Three specifications share the variables:                               *)
(*   Spec          report_gauges.main, the report pipeline                 *)
(*   SpecClassify  the six classifiers applied to one transaction          *)
(*   SpecBribe     bribe_ecosystems.main                                   *)
(*                                                                         *)
(* A transaction is abstracted to the fields the classifiers read.  What   *)
(* the remote calls answer (contract lookups, proposal maps, decoding) is  *)
(* an input carried by the transaction record.                             *)
(***************************************************************************)
EXTENDS Naturals, Integers, Sequences, FiniteSets, TLC

VARIABLES
    files,        \* report_gauges.main: list returned by get_changed_files
    pc,           \* report_gauges.main: position in main
    all_reports,  \* report_gauges.main: all_reports
    calls,        \* log of the calls main made, each handler with its handler_func calls
    uncovered,    \* parse_no_reports_report: uncovered_indexes_by_file
    merged_files, \* report_gauges.main: merged_files
    payload,      \* content of payload_reports.txt
    written,      \* report files written, file name -> content
    ctx,          \* SpecClassify: the transaction and chain id under test
    cres,         \* SpecClassify: result of each classifier applied so far
    csv,          \* bribe_ecosystems: rows of the CSV file
    bribes,       \* bribe_ecosystems.main: bribes
    bpc,          \* bribe_ecosystems.main: position in main
    safe_calls    \* bribe_ecosystems.main: calls recorded by the safe

vars == <<files, pc, all_reports, calls, uncovered, merged_files, payload,
          written, ctx, cres, csv, bribes, bpc, safe_calls>>

pipeVars == <<files, pc, all_reports, calls, uncovered, merged_files, payload, written>>
classVars == <<ctx, cres>>
bribeVars == <<csv, bribes, bpc, safe_calls>>

----------------------------------------------------------------------------
(* Constants of report_gauges.py *)

GAUGE_ADD_METHODS == <<"gauge", "rootGauge">>
CMD_GAUGE_KILL == "killGauge()"
STYLE_MAINNET == "mainnet"
STYLE_SINGLE_RECIPIENT == "Single Recipient"
STYLE_CHILD_CHAIN_STREAMER == "ChildChainStreamer"
STYLE_L0 == "L0 sidechain"
CHAIN_MAINNET == "mainnet"

TYPE_TO_CHAIN_MAP ==
    [t \in {"Ethereum", "Polygon", "Arbitrum", "Optimism", "Gnosis", "PolygonZkEvm",
            "Avalanche", "Base", "EthereumSingleRecipientGauge"} |->
        CASE t = "Ethereum" -> CHAIN_MAINNET
          [] t = "Polygon" -> "polygon-main"
          [] t = "Arbitrum" -> "arbitrum-main"
          [] t = "Optimism" -> "optimism-main"
          [] t = "Gnosis" -> "gnosis-main"
          [] t = "PolygonZkEvm" -> "zkevm-main"
          [] t = "Avalanche" -> "avax-main"
          [] t = "Base" -> "base-main"
          [] t = "EthereumSingleRecipientGauge" -> CHAIN_MAINNET]

SELECTORS_MAPPING ==
    [s \in {"getPolygonBridge", "getArbitrumBridge", "getGnosisBridge", "getOptimismBridge",
            "getPolygonZkEVMBridge", "getAvalancheBridge", "getBaseBridge"} |->
        CASE s = "getPolygonBridge" -> "polygon-main"
          [] s = "getArbitrumBridge" -> "arbitrum-main"
          [] s = "getGnosisBridge" -> "gnosis-main"
          [] s = "getOptimismBridge" -> "optimism-main"
          [] s = "getPolygonZkEVMBridge" -> "zkevm-main"
          [] s = "getAvalancheBridge" -> "avax-main"
          [] s = "getBaseBridge" -> "base-main"]

\* The python value None, where a chain name is expected.
NoChain == "None"

\* dict.get(key) of TYPE_TO_CHAIN_MAP: None for a key that is not in the map.
TypeToChainGet(gauge_type) ==
    IF gauge_type \in DOMAIN TYPE_TO_CHAIN_MAP THEN TYPE_TO_CHAIN_MAP[gauge_type] ELSE NoChain

\* chain.replace("-main", ""): the chain names the script handles, suffix removed.
StripMain(chain) ==
    CASE chain = "polygon-main" -> "polygon"
      [] chain = "arbitrum-main" -> "arbitrum"
      [] chain = "optimism-main" -> "optimism"
      [] chain = "gnosis-main" -> "gnosis"
      [] chain = "zkevm-main" -> "zkevm"
      [] chain = "avax-main" -> "avax"
      [] chain = "base-main" -> "base"
      [] OTHER -> chain

SENTINEL == "CONTRACT_UNVERIFIED"

----------------------------------------------------------------------------
(* Addresses and names the classifiers compare against *)

GaugeAdder == "0xGaugeAdderV4"
AuraBriber == "0xAuraBriber"
BalBriber == "0xBalancerBriber"
OtherAddress == "0xOther"

\* Method names of the samples that contain the substring "Role".
RoleNames == {"grantRole", "revokeRoles"}

\* Chain ids the address book knows (AddrBook.chain_names_by_id).
KnownChainIds == {"1", "42161"}

----------------------------------------------------------------------------
(* Transactions, report rows and classifier results *)

\* Values of contractMethod.name in the samples; "absent" is a contractMethod
\* without a name key.
MethodNames == {"transfer", "grantRole", "revokeRoles", "depositBribe",
                "setRecipientList", "addGauge", "performAction"}

\* Selectors of the gauge contract named in a transaction (gauge.selectors.values()).
GaugeSelectors(gaugeName) ==
    CASE gaugeName = "LiquidityGaugeV5" -> {"name", "lp_token", "getRelativeWeightCap"}
      [] gaugeName = "ArbitrumRootGauge" -> {"getRecipient", "getRelativeWeightCap"}
      [] gaugeName = "BridgedRootGauge" -> {"getRecipient", "getOptimismBridge"}
      [] OTHER -> {"getRecipient"}

NoPool ==
    [pool_name |-> "-", pool_symbol |-> "-", pool_id |-> "-", pool_address |-> "-",
     a_factor |-> "-", fee |-> "-", style |-> "-", tokens |-> <<>>, rate_providers |-> <<>>]

NoRow == [function |-> "-", chain |-> "-", tx_index |-> 0, pool |-> NoPool, error |-> "-"]

\* A python function returning without a value.
ReturnNone == [kind |-> "none", row |-> NoRow, exc |-> "-"]

ReturnRow(row) == [kind |-> "row", row |-> row, exc |-> "-"]

Raise(exc) == [kind |-> "raise", row |-> NoRow, exc |-> exc]

\* Mutant: only contractMethod is tested.
LacksFieldsMethodOnly(tx) == tx.cm # "dict"

\* not transaction.get("contractInputsValues") or not transaction.get("contractMethod")
LacksFields(tx) == tx.civ # "dict" \/ tx.cm # "dict"

----------------------------------------------------------------------------
(* _extract_pool *)

\* What get_pool_info answers for a pool that can be read.
PoolInfo(style) ==
    [pool_name |-> "POOL", pool_symbol |-> "SYM", pool_id |-> "0xPoolId",
     pool_address |-> "0xPool", a_factor |-> "A", fee |-> "FEE", style |-> style,
     tokens |-> <<"TOKEN">>, rate_providers |-> <<"RP">>]

UnverifiedPool(style) ==
    [pool_name |-> SENTINEL, pool_symbol |-> SENTINEL, pool_id |-> SENTINEL,
     pool_address |-> SENTINEL, a_factor |-> SENTINEL, fee |-> SENTINEL, style |-> style,
     tokens |-> <<>>, rate_providers |-> <<>>]

NoEscrowPool ==
    [pool_name |-> "UNKNOWN - No escrow", pool_symbol |-> "N/A", pool_id |-> "N/A - No Escrow",
     pool_address |-> "N/A", a_factor |-> "N/A", fee |-> "N/A", style |-> STYLE_SINGLE_RECIPIENT,
     tokens |-> <<"UNKNOWN">>, rate_providers |-> <<"UNKNOWN">>]

PoolResult(pool) == [kind |-> "ok", pool |-> pool, exc |-> "-"]

PoolRaise(exc) == [kind |-> "raise", pool |-> NoPool, exc |-> exc]

\* Mutant: every ValueError is replaced by the sentinel.
SidechainLookupAnyValueError(lookup) ==
    CASE lookup = "ok" -> PoolResult(PoolInfo(STYLE_L0))
      [] lookup = "ok_streamer" -> PoolResult(PoolInfo(STYLE_CHILD_CHAIN_STREAMER))
      [] lookup \in {"unverified", "value_error"} -> PoolResult(UnverifiedPool(STYLE_L0))
      [] OTHER -> PoolRaise("AttributeError")

\* The except clause of the sidechain branch: only a ValueError whose message is
\* the block explorer's "Contract source code not verified" is replaced.
SidechainLookup(lookup) ==
    CASE lookup = "ok" -> PoolResult(PoolInfo(STYLE_L0))
      [] lookup = "ok_streamer" -> PoolResult(PoolInfo(STYLE_CHILD_CHAIN_STREAMER))
      [] lookup = "unverified" -> PoolResult(UnverifiedPool(STYLE_L0))
      [] lookup = "value_error" -> PoolRaise("ValueError")
      [] OTHER -> PoolRaise("AttributeError")

\* The lookup field of the transaction is what the remote reads answer:
\*   ok, ok_streamer   the pool is read (the recipient is a plain one, a streamer)
\*   unverified        Contract(recipient) raises the "not verified" ValueError
\*   value_error       a read raises another ValueError
\*   attribute_error   a read raises AttributeError
ExtractPool(chain, tx) ==
    IF chain = NoChain
    THEN PoolRaise("AttributeError")      \* None != CHAIN_MAINNET, then None.replace
    ELSE IF chain # CHAIN_MAINNET
    THEN SidechainLookup(tx.lookup)
    ELSE IF "name" \notin GaugeSelectors(tx.gaugeName)
    THEN CASE tx.lookup \in {"ok", "ok_streamer"} -> PoolResult(PoolInfo(STYLE_SINGLE_RECIPIENT))
           [] tx.lookup = "attribute_error" -> PoolResult(NoEscrowPool)
           [] OTHER -> PoolRaise("ValueError")
    ELSE CASE tx.lookup \in {"ok", "ok_streamer"} -> PoolResult(PoolInfo(STYLE_MAINNET))
           [] tx.lookup = "attribute_error" -> PoolRaise("AttributeError")
           [] OTHER -> PoolRaise("ValueError")

----------------------------------------------------------------------------
(* The six classifiers.  Each takes the transaction, the chain id of its   *)
(* file and the tx_index keyword argument.                                 *)

\* Mutant: only the gauge and amount lists are compared.
SameLengthFirstTwo(lists) == lists[1] = lists[2]

\* The assertion on the lengths of gaugeAddresses, amountsPerPeriod and
\* maxPeriods, the lists field holding the three lengths in that order.
SameLength(lists) == lists[1] = lists[2] /\ lists[1] = lists[3]

ParseSetRecipientList(tx, chain_id, tx_index) ==
    IF LacksFields(tx) THEN ReturnNone
    ELSE IF tx.name # "setRecipientList" THEN ReturnNone
    ELSE IF ~SameLength(tx.lists) THEN Raise("AssertionError")
    ELSE ReturnRow([function |-> "setRecipientList",
                    chain |-> IF chain_id \in KnownChainIds THEN chain_id ELSE NoChain,
                    tx_index |-> tx_index, pool |-> NoPool, error |-> "-"])

\* Mutant: an unknown proposal is answered with None.
ParseHhBribNoneOnUnknown(tx, chain_id, tx_index) ==
    IF LacksFields(tx) THEN ReturnNone
    ELSE IF tx.name # "depositBribe" THEN ReturnNone
    ELSE IF tx.to \notin {AuraBriber, BalBriber} THEN ReturnNone
    ELSE IF tx.proposal = "absent" THEN Raise("KeyError")
    ELSE IF tx.proposal # "known" THEN ReturnNone
    ELSE ReturnRow([function |-> "depositBribe", chain |-> "mainnet", tx_index |-> tx_index,
                    pool |-> NoPool, error |-> "-"])

\* The proposal field of the transaction is "known" when the market's map
\* holds contractInputsValues["_proposal"], "unknown" when it does not and
\* "absent" when the inputs have no _proposal key.  The token contract is
\* taken to answer symbol() and decimals(), and _amount to be an integer.
ParseHhBrib(tx, chain_id, tx_index) ==
    IF LacksFields(tx) THEN ReturnNone
    ELSE IF tx.name # "depositBribe" THEN ReturnNone
    ELSE IF tx.to \notin {AuraBriber, BalBriber} THEN ReturnNone
    ELSE IF tx.proposal = "absent" THEN Raise("KeyError")   \* contractInputsValues["_proposal"]
    ELSE IF tx.proposal # "known"
    THEN ReturnRow([function |-> "depositBribe", chain |-> "mainnet", tx_index |-> tx_index,
                    pool |-> NoPool, error |-> "Can not find proposal"])
    ELSE ReturnRow([function |-> "depositBribe", chain |-> "mainnet", tx_index |-> tx_index,
                    pool |-> NoPool, error |-> "-"])

\* chain.replace("-main", "") if chain else "mainnet"
RowChain(chain) == IF chain = NoChain THEN "mainnet" ELSE StripMain(chain)

ParseAddedTransaction(tx, chain_id, tx_index) ==
    IF LacksFields(tx) THEN ReturnNone
    ELSE IF tx.gauge = "absent" THEN ReturnNone            \* no gauge / rootGauge key
    ELSE IF tx.name = "absent" THEN Raise("KeyError")      \* contractMethod["name"]
    ELSE IF tx.gaugeType = "absent" THEN ReturnNone
    ELSE IF tx.to # GaugeAdder THEN ReturnNone
    ELSE IF tx.gauge = "empty" THEN ReturnNone
    ELSE LET chain == TypeToChainGet(tx.gaugeType)
             pool == ExtractPool(chain, tx)
         IN  IF pool.kind = "raise" THEN Raise(pool.exc)
             ELSE ReturnRow([function |-> tx.name, chain |-> RowChain(chain),
                             tx_index |-> tx_index, pool |-> pool.pool, error |-> "-"])

\* The chain of a gauge being removed: by the contract's name, else by the
\* first selector found in SELECTORS_MAPPING, else mainnet.
RemovedChain(gaugeName) ==
    CASE gaugeName = "AvalancheRootGauge" -> "avax-main"
      [] gaugeName = "PolygonZkEVMRootGauge" -> "zkevm-main"
      [] gaugeName = "PolygonRootGauge" -> "polygon-main"
      [] gaugeName = "ArbitrumRootGauge" -> "arbitrum-main"
      [] gaugeName = "OptimismRootGauge" -> "optimism-main"
      [] gaugeName = "GnosisRootGauge" -> "gnosis-main"
      [] gaugeName = "BaseRootGauge" -> "base-main"
      [] OTHER ->
           LET hits == GaugeSelectors(gaugeName) \cap DOMAIN SELECTORS_MAPPING
           IN  IF hits = {} THEN CHAIN_MAINNET ELSE SELECTORS_MAPPING[CHOOSE s \in hits : TRUE]

ParseRemovedTransaction(tx, chain_id, tx_index) ==
    IF LacksFields(tx) THEN ReturnNone
    ELSE IF tx.data = "absent" THEN ReturnNone
    ELSE IF tx.data = "undecodable" THEN ReturnNone        \* the bare except
    ELSE IF tx.data # "kill" THEN ReturnNone
    ELSE LET chain == RemovedChain(tx.gaugeName)
             pool == ExtractPool(chain, tx)
         IN  IF pool.kind = "raise" THEN Raise(pool.exc)
             ELSE ReturnRow([function |-> CMD_GAUGE_KILL, chain |-> RowChain(chain),
                             tx_index |-> tx_index, pool |-> pool.pool, error |-> "-"])

ParsePermissions(tx, chain_id, tx_index) ==
    IF LacksFields(tx) THEN ReturnNone
    ELSE IF tx.name = "absent" THEN Raise("TypeError")     \* "Role" not in None
    ELSE IF tx.name \notin RoleNames THEN ReturnNone
    ELSE IF chain_id \notin KnownChainIds THEN ReturnNone
    ELSE ReturnRow([function |-> tx.name, chain |-> chain_id, tx_index |-> tx_index,
                    pool |-> NoPool, error |-> "-"])

ParseTransfer(tx, chain_id, tx_index) ==
    IF LacksFields(tx) THEN ReturnNone
    ELSE IF tx.name = "absent" THEN Raise("KeyError")      \* contractMethod["name"]
    ELSE IF tx.name # "transfer" THEN ReturnNone
    ELSE IF chain_id \notin KnownChainIds
    THEN Raise("UnboundLocalError")       \* chain_name stays "main", addresses is never bound
    ELSE ReturnRow([function |-> "transfer", chain |-> chain_id, tx_index |-> tx_index,
                    pool |-> NoPool, error |-> "-"])

\* Mutant: the last handler runs first.
HandlerOrderLastFirst ==
    <<"set_recipient_list", "added", "removed", "transfer", "permissions", "hh_brib">>

\* The handlers in the order main runs them.
HandlerOrder ==
    <<"added", "removed", "transfer", "permissions", "hh_brib", "set_recipient_list">>

\* handler_func(transaction, chain_id=..., bip_number=..., tx_index=...)
HandlerFunc(h, tx, chain_id, tx_index) ==
    CASE h = "added" -> ParseAddedTransaction(tx, chain_id, tx_index)
      [] h = "removed" -> ParseRemovedTransaction(tx, chain_id, tx_index)
      [] h = "transfer" -> ParseTransfer(tx, chain_id, tx_index)
      [] h = "permissions" -> ParsePermissions(tx, chain_id, tx_index)
      [] h = "hh_brib" -> ParseHhBrib(tx, chain_id, tx_index)
      [] h = "set_recipient_list" -> ParseSetRecipientList(tx, chain_id, tx_index)

----------------------------------------------------------------------------
(* bribe_ecosystems.py *)

\* bribe_ecosystems.main is not running.
BribeOff == [at |-> "off", i |-> 0]

\* int(usdc.decimals())
UsdcDecimals == 6

\* float(text) of the amount column: the number, or a ValueError.
ParseFloat(text) ==
    CASE text = "100" -> [ok |-> TRUE, value |-> 100]
      [] text = "250" -> [ok |-> TRUE, value |-> 250]
      [] text = "7" -> [ok |-> TRUE, value |-> 7]
      [] OTHER -> [ok |-> FALSE, value |-> 0]

RECURSIVE IndexOfTarget(_, _, _)
IndexOfTarget(d, target, k) ==
    IF k > Len(d) THEN 0
    ELSE IF d[k].target = target THEN k
    ELSE IndexOfTarget(d, target, k + 1)

\* Mutant: the amount is added to the one already held for the target.
SetBribeSum(d, target, amount) ==
    LET k == IndexOfTarget(d, target, 1)
    IN  IF k = 0 THEN Append(d, [target |-> target, amount |-> amount])
        ELSE [d EXCEPT ![k].amount = @ + amount]

\* d[target] = amount on a dict held as the list of its items in insertion
\* order: a key already there keeps its place and takes the new value.
SetBribe(d, target, amount) ==
    LET k == IndexOfTarget(d, target, 1)
    IN  IF k = 0 THEN Append(d, [target |-> target, amount |-> amount])
        ELSE [d EXCEPT ![k].amount = amount]

NoBribes == [aura |-> <<>>, balancer |-> <<>>]

\* The loop over the rows of the CSV.
RECURSIVE CsvLoop(_, _, _)
CsvLoop(rows, k, b) ==
    IF k > Len(rows) THEN [raised |-> FALSE, exc |-> "-", bribes |-> b]
    ELSE LET row == rows[k]
             amount == ParseFloat(row.amount)
         IN  IF row.platform \notin DOMAIN b
             THEN [raised |-> TRUE, exc |-> "KeyError", bribes |-> b]
             ELSE IF ~amount.ok
             THEN [raised |-> TRUE, exc |-> "ValueError", bribes |-> b]
             ELSE CsvLoop(rows, k + 1,
                          [b EXCEPT ![row.platform] = SetBribe(@, row.target, amount.value)])

ProcessBribeCsv(rows) == CsvLoop(rows, 1, NoBribes)

\* int(amount * decimals), decimals = 10 ** int(usdc.decimals())
Mantissa(amount) == amount * (10 ^ UsdcDecimals)

SafeCall(call, via, target, prop, amount) ==
    [call |-> call, via |-> via, target |-> target, prop |-> prop, amount |-> amount]

\* Mutant: the approval is left out.
BribeBalancerNoApprove(gauge, mantissa) ==
    << SafeCall("depositBribeERC20", "balancer_briber", gauge, <<"keccak", gauge>>, mantissa) >>

\* bribe_balancer(gauge, mantissa): the calls it records on the safe.
BribeBalancer(gauge, mantissa) ==
    << SafeCall("approve", "usdc", "bribe_vault", <<>>, mantissa),
       SafeCall("depositBribeERC20", "balancer_briber", gauge, <<"keccak", gauge>>, mantissa) >>

\* Gauges of get_gauge_name_map, and the ones get_hh_aura_target finds a
\* proposal for (it answers False for the others).
MappedGauges == {"0xG1", "0xG2"}
ListedGauges == {"0xG1"}

AuraProposal(target) == IF target \in ListedGauges THEN <<"hh", target>> ELSE <<"False">>

\* The body of the loop over bribes["aura"]: the calls it records on the safe.
BribeAura(target, mantissa) ==
    << SafeCall("approve", "usdc", "bribe_vault", <<>>, mantissa),
       SafeCall("depositBribeERC20", "aura_briber", target, AuraProposal(target), mantissa) >>

MaxRows == 3

CsvRows ==
    [target : {"0xG1", "0xG2", "0xUnmapped"}, platform : {"aura", "balancer"},
     amount : {"100", "250"}]
    \cup {[target |-> "0xG1", platform |-> "votium", amount |-> "7"],
          [target |-> "0xG2", platform |-> "balancer", amount |-> "n/a"]}

InitBribe ==
    /\ csv \in UNION { [1..n -> CsvRows] : n \in 0..MaxRows }
    /\ bribes = <<>>
    /\ bpc = [at |-> "start", i |-> 0]
    /\ safe_calls = <<>>
    /\ files = <<>> /\ pc = "off" /\ all_reports = <<>> /\ calls = <<>>
    /\ uncovered = <<>> /\ merged_files = <<>> /\ payload = <<>> /\ written = <<>>
    /\ ctx = <<>> /\ cres = <<>>

\* bribes = process_bribe_csv(csv_file)
ProcessCsv ==
    /\ bpc.at = "start"
    /\ LET r == ProcessBribeCsv(csv)
       IN  IF r.raised
           THEN bpc' = [at |-> "aborted", i |-> 0] /\ UNCHANGED bribes
           ELSE bpc' = [at |-> "balancer", i |-> 1] /\ bribes' = r.bribes
    /\ UNCHANGED <<csv, safe_calls, pipeVars, classVars>>

\* One turn of the loop over bribes["balancer"].
BalancerBribe ==
    /\ bpc.at = "balancer"
    /\ bpc.i <= Len(bribes.balancer)
    /\ LET item == bribes.balancer[bpc.i]
       IN  safe_calls' = safe_calls \o BribeBalancer(item.target, Mantissa(item.amount))
    /\ bpc' = [bpc EXCEPT !.i = @ + 1]
    /\ UNCHANGED <<csv, bribes, pipeVars, classVars>>

BalancerDone ==
    /\ bpc.at = "balancer"
    /\ bpc.i > Len(bribes.balancer)
    /\ bpc' = [at |-> "aura", i |-> 1]
    /\ UNCHANGED <<csv, bribes, safe_calls, pipeVars, classVars>>

\* One turn of the loop over bribes["aura"]; a target that is not in the
\* gauge name map raises KeyError.
AuraBribe ==
    /\ bpc.at = "aura"
    /\ bpc.i <= Len(bribes.aura)
    /\ LET item == bribes.aura[bpc.i]
       IN  IF item.target \notin MappedGauges
           THEN bpc' = [at |-> "aborted", i |-> bpc.i] /\ UNCHANGED safe_calls
           ELSE /\ safe_calls' = safe_calls \o BribeAura(item.target, Mantissa(item.amount))
                /\ bpc' = [bpc EXCEPT !.i = @ + 1]
    /\ UNCHANGED <<csv, bribes, pipeVars, classVars>>

\* safe.post_safe_tx(gen_tenderly=False)
PostSafeTx ==
    /\ bpc.at = "aura"
    /\ bpc.i > Len(bribes.aura)
    /\ safe_calls' = Append(safe_calls, SafeCall("post_safe_tx", "safe", "-", <<>>, 0))
    /\ bpc' = [at |-> "done", i |-> 0]
    /\ UNCHANGED <<csv, bribes, pipeVars, classVars>>

NextBribe ==
    \/ ProcessCsv
    \/ BalancerBribe
    \/ BalancerDone
    \/ AuraBribe
    \/ PostSafeTx

SpecBribe == InitBribe /\ [][NextBribe]_vars

----------------------------------------------------------------------------
(* Claims on bribe_ecosystems.py *)

\* process_bribe_csv has returned (main may have stopped later, in the aura loop).
CsvProcessed ==
    \/ bpc.at \in {"balancer", "aura", "done"}
    \/ bpc.at = "aborted" /\ bpc.i > 0

\* The last row of the CSV with the platform and target of row k.
LastRowLike(k) ==
    CHOOSE j \in DOMAIN csv :
        /\ csv[j].platform = csv[k].platform /\ csv[j].target = csv[k].target
        /\ \A m \in DOMAIN csv :
             (csv[m].platform = csv[k].platform /\ csv[m].target = csv[k].target) => m <= j

\* C9: process_bribe_csv returns a mapping with exactly the platforms aura
\* and balancer where result[platform][target] is the amount of the last row
\* with that platform and target (amounts are not summed), and nothing else;
\* a row with another platform raises instead of being dropped.
C9_CsvLastRowWins ==
    /\ CsvProcessed =>
         /\ DOMAIN bribes = {"aura", "balancer"}
         /\ \A k \in DOMAIN csv :
              /\ csv[k].platform \in {"aura", "balancer"}
              /\ \E e \in DOMAIN bribes[csv[k].platform] :
                   /\ bribes[csv[k].platform][e].target = csv[k].target
                   /\ bribes[csv[k].platform][e].amount = ParseFloat(csv[LastRowLike(k)].amount).value
         /\ \A pl \in {"aura", "balancer"} : \A e \in DOMAIN bribes[pl] :
              /\ \E k \in DOMAIN csv :
                   csv[k].platform = pl /\ csv[k].target = bribes[pl][e].target
              /\ \A f \in DOMAIN bribes[pl] :
                   bribes[pl][f].target = bribes[pl][e].target => f = e
    /\ (bpc.at # "start" /\ \E k \in DOMAIN csv : csv[k].platform \notin {"aura", "balancer"})
         => bpc.at = "aborted" /\ bpc.i = 0 /\ safe_calls = <<>>

\* Two rows for the same platform and target with different amounts, and a
\* row for the other platform.
C9_Witness ==
    /\ CsvProcessed
    /\ Len(csv) = 3
    /\ csv[1].platform = csv[3].platform /\ csv[1].target = csv[3].target
    /\ csv[1].amount # csv[3].amount
    /\ csv[2].platform # csv[1].platform
    /\ Len(bribes.aura) = 1 /\ Len(bribes.balancer) = 1

IsDeposit(c) == c.call = "depositBribeERC20"

BriberOf(platform) == IF platform = "aura" THEN "aura_briber" ELSE "balancer_briber"

----------------------------------------------------------------------------
(* Sample transactions *)

\* A call that no classifier recognises, with every field present.
BaseTx ==
    [civ |-> "dict", cm |-> "dict", name |-> "performAction", to |-> OtherAddress,
     gauge |-> "absent", gaugeType |-> "absent", data |-> "absent",
     gaugeName |-> "LiquidityGaugeV5", lookup |-> "ok", proposal |-> "known",
     lists |-> <<1, 1, 1>>]

\* Fields of contractMethod and contractInputsValues can only be present when
\* the dict that holds them is.
WellFormedTx(tx) ==
    /\ tx.cm # "dict" => tx.name = "absent"
    /\ tx.civ # "dict" => tx.gauge = "absent" /\ tx.gaugeType = "absent" /\ tx.data = "absent"

\* Every combination of the fields the classifiers test before any remote call.
FieldSamples ==
    { tx \in [civ : {"absent", "empty", "dict"},
              cm : {"absent", "empty", "dict"},
              name : MethodNames \cup {"absent"},
              to : {GaugeAdder, AuraBriber, BalBriber, OtherAddress},
              gauge : {"absent", "empty", "0xGauge"},
              gaugeType : {"absent", "Ethereum", "Arbitrum", "Bogus"},
              data : {"absent", "kill", "other", "undecodable"},
              gaugeName : {"LiquidityGaugeV5"}, lookup : {"ok"},
              proposal : {"known"}, lists : {<<1, 1, 1>>}] : WellFormedTx(tx) }

\* Gauge additions, gauge removals, bribes and recipient lists with every
\* answer of the remote calls.
RemoteSamples ==
    { [BaseTx EXCEPT !.name = n, !.to = t, !.gauge = g[1], !.gaugeType = g[2], !.data = g[3],
                     !.gaugeName = gn, !.lookup = l, !.proposal = q[1], !.lists = q[2]] :
        n \in {"addGauge", "performAction", "depositBribe", "setRecipientList"},
        t \in {GaugeAdder, AuraBriber, OtherAddress},
        g \in {<<"0xGauge", "Ethereum", "absent">>, <<"0xGauge", "Arbitrum", "absent">>,
               <<"0xGauge", "Bogus", "absent">>, <<"absent", "absent", "kill">>,
               <<"absent", "absent", "absent">>},
        gn \in {"LiquidityGaugeV5", "ArbitrumRootGauge", "BridgedRootGauge", "SingleRecipientGauge"},
        l \in {"ok", "ok_streamer", "unverified", "value_error", "attribute_error"},
        q \in {<<"known", <<2, 2, 2>>>>, <<"unknown", <<2, 2, 2>>>>, <<"known", <<2, 1, 2>>>>,
               <<"known", <<2, 2, 1>>>>, <<"absent", <<2, 2, 2>>>>} }

ChainIdSamples == {"1", "42161", "999"}

----------------------------------------------------------------------------
(* SpecClassify: one classifier applied to one transaction *)

NotApplied == [h |-> "-", res |-> ReturnNone]

InitClassify ==
    /\ ctx \in [tx : FieldSamples \cup RemoteSamples, chain_id : ChainIdSamples]
    /\ cres = NotApplied
    /\ files = <<>> /\ pc = "off" /\ all_reports = <<>> /\ calls = <<>>
    /\ uncovered = <<>> /\ merged_files = <<>> /\ payload = <<>> /\ written = <<>>
    /\ csv = <<>> /\ bribes = <<>> /\ bpc = BribeOff /\ safe_calls = <<>>

Classify(h) ==
    /\ pc = "off" /\ bpc = BribeOff
    /\ cres = NotApplied
    /\ cres' = [h |-> h, res |-> HandlerFunc(h, ctx.tx, ctx.chain_id, 0)]
    /\ UNCHANGED <<ctx, pipeVars, bribeVars>>

ClassifyAdded == Classify("added")
ClassifyRemoved == Classify("removed")
ClassifyTransfer == Classify("transfer")
ClassifyPermissions == Classify("permissions")
ClassifyHhBrib == Classify("hh_brib")
ClassifySetRecipientList == Classify("set_recipient_list")

NextClassify ==
    \/ ClassifyAdded
    \/ ClassifyRemoved
    \/ ClassifyTransfer
    \/ ClassifyPermissions
    \/ ClassifyHhBrib
    \/ ClassifySetRecipientList

SpecClassify == InitClassify /\ [][NextClassify]_vars

----------------------------------------------------------------------------
(* Claims on the classifiers *)

\* The method name a classifier tests for; the gauge classifiers test none.
ExpectsName(h, name) ==
    CASE h = "transfer" -> name = "transfer"
      [] h = "permissions" -> name \in RoleNames
      [] h = "hh_brib" -> name = "depositBribe"
      [] h = "set_recipient_list" -> name = "setRecipientList"
      [] OTHER -> FALSE

\* C2: each of the six classifiers returns None, without raising, for every
\* transaction whose contractMethod has no name or (for the classifiers that
\* test the name) a name other than the expected one.
C2_NoneWithoutExpectedName ==
    (/\ cres.h # "-"
     /\ ctx.tx.cm = "dict"
     /\ \/ ctx.tx.name = "absent"
        \/ cres.h \in {"transfer", "permissions", "hh_brib", "set_recipient_list"}
           /\ ~ExpectsName(cres.h, ctx.tx.name))
    => cres.res.kind = "none"

----------------------------------------------------------------------------
(* handler *)

\* Mutant: the counter advances only when handler_func returned data.
NextIndexOnData(i, data) == IF data.kind = "row" THEN i + 1 ELSE i

\* i += 1 at the end of the loop body, whatever handler_func returned.
NextIndex(i, data) == i + 1

\* A dict keyed by file name, as the list of its entries in insertion order.
ReportEntry(file_name, outputs) ==
    [file_name |-> file_name, outputs |-> outputs,
     report_text |-> <<[file |-> file_name, rows |-> outputs]>>]

\* The loop over file["transactions"]: p is the position of the transaction
\* in the list (from 1), i the counter handed over as tx_index.
RECURSIVE TxLoop(_, _, _, _, _, _)
TxLoop(h, file, p, i, outputs, log) ==
    IF p > Len(file.transactions)
    THEN [outputs |-> outputs, log |-> log, raised |-> FALSE]
    ELSE LET data == HandlerFunc(h, file.transactions[p], file.chainId, i)
             log2 == Append(log, [h |-> h, file |-> file.file_name, pos |-> p, tx_index |-> i])
         IN  IF data.kind = "raise"
             THEN [outputs |-> outputs, log |-> log2, raised |-> TRUE]
             ELSE TxLoop(h, file, p + 1, NextIndex(i, data),
                         IF data.kind = "row" THEN Append(outputs, data.row) ELSE outputs,
                         log2)

\* The loop over files.
RECURSIVE FileLoop(_, _, _, _, _)
FileLoop(h, fs, k, reports, log) ==
    IF k > Len(fs)
    THEN [reports |-> reports, log |-> log, raised |-> FALSE]
    ELSE LET r == TxLoop(h, fs[k], 1, 0, <<>>, log)
         IN  IF r.raised
             THEN [reports |-> reports, log |-> r.log, raised |-> TRUE]
             ELSE FileLoop(h, fs, k + 1,
                           IF r.outputs # <<>>
                           THEN Append(reports, ReportEntry(fs[k].file_name, r.outputs))
                           ELSE reports,
                           r.log)

\* handler(files, handler_func): the reports, the calls made, and whether a
\* call raised (the exception leaves handler).
Handler(fs, h) == FileLoop(h, fs, 1, <<>>, <<>>)

----------------------------------------------------------------------------
(* parse_no_reports_report *)

EntryIndexes(entry) == { entry.outputs[o].tx_index : o \in DOMAIN entry.outputs }

\* covered_indexs_by_file[filename]: the tx_index of every output the reports
\* hold for the file.
CoveredIndexes(reports, file_name) ==
    UNION { UNION { IF reports[r][e].file_name = file_name
                    THEN EntryIndexes(reports[r][e]) ELSE {} : e \in DOMAIN reports[r] } :
            r \in DOMAIN reports }

SymmetricDifference(a, b) == (a \ b) \cup (b \ a)

\* Mutant: index 0 is added whether or not an index is covered.
UncoveredIndexesAlwaysZero(len, covered) ==
    SymmetricDifference(0 .. (len - 1), covered) \cup {0}

\* set(all_indexes).symmetric_difference(covered_indexes), and index 0 added
\* when no index is covered.
UncoveredIndexes(len, covered) ==
    LET d == SymmetricDifference(0 .. (len - 1), covered)
    IN  IF Cardinality(covered) = 0 THEN d \cup {0} ELSE d

\* The row reported for an uncovered transaction.
NoReportRow(tx) ==
    [fx_name |-> IF tx.cm = "dict" /\ tx.name # "absent" THEN tx.name ELSE "!!N/A!!",
     to |-> tx.to, tx_index |-> "N/A"]

\* The indexes of a set in increasing order (the order in which CPython
\* iterates a set of small non-negative integers).
RECURSIVE Ascending(_)
Ascending(S) ==
    IF S = {} THEN <<>>
    ELSE LET m == CHOOSE x \in S : \A y \in S : x <= y
         IN  <<m>> \o Ascending(S \ {m})

\* The loop over covered_indexs_by_file, which holds the files in list order.
RECURSIVE NoReportsLoop(_, _, _, _, _)
NoReportsLoop(reports_in, fs, k, reports, unc) ==
    IF k > Len(fs)
    THEN [reports |-> reports, uncovered |-> unc, raised |-> FALSE]
    ELSE LET file == fs[k]
             len == Len(file.transactions)
             u == UncoveredIndexes(len, CoveredIndexes(reports_in, file.file_name))
             unc2 == Append(unc, [file_name |-> file.file_name, indexes |-> u])
             order == Ascending(u)
         IN  IF u = {}
             THEN NoReportsLoop(reports_in, fs, k + 1, reports, unc)
             ELSE IF \E i \in u : i >= len
             THEN [reports |-> reports, uncovered |-> unc2, raised |-> TRUE]  \* IndexError
             ELSE NoReportsLoop(reports_in, fs, k + 1,
                     Append(reports,
                            ReportEntry(file.file_name,
                                [j \in 1..Len(order) |-> NoReportRow(file.transactions[order[j] + 1])])),
                     unc2)

ParseNoReportsReport(reports_in, fs) == NoReportsLoop(reports_in, fs, 1, <<>>, <<>>)

----------------------------------------------------------------------------
(* merge_files and the file names *)

RECURSIVE IndexOfName(_, _, _)
IndexOfName(m, file_name, k) ==
    IF k > Len(m) THEN 0
    ELSE IF m[k].file_name = file_name THEN k
    ELSE IndexOfName(m, file_name, k + 1)

\* strings[file_name] += report_text
AddText(m, entry) ==
    LET k == IndexOfName(m, entry.file_name, 1)
    IN  IF k = 0
        THEN Append(m, [file_name |-> entry.file_name, text |-> entry.report_text])
        ELSE [m EXCEPT ![k].text = @ \o entry.report_text]

RECURSIVE MergeEntries(_, _, _)
MergeEntries(m, report, e) ==
    IF e > Len(report) THEN m ELSE MergeEntries(AddText(m, report[e]), report, e + 1)

RECURSIVE MergeReports(_, _, _)
MergeReports(m, reports, r) ==
    IF r > Len(reports) THEN m
    ELSE MergeReports(MergeEntries(m, reports[r], 1), reports, r + 1)

\* merge_files(all_reports): per file name, the report texts of all reports
\* one after the other.
MergeFiles(reports) == MergeReports(<<>>, reports, 1)

\* Mutant: the file name is left as it is.
ReplaceJsonKeep(file_name) == file_name

\* filename.replace(".json", ".report.txt"), a file name being the list of
\* its parts.
ReplaceJson(file_name) ==
    [k \in DOMAIN file_name |-> IF file_name[k] = ".json" THEN ".report.txt" ELSE file_name[k]]

RECURSIVE ConcatTexts(_, _)
ConcatTexts(m, k) ==
    IF k > Len(m) THEN <<>> ELSE m[k].text \o ConcatTexts(m, k + 1)

----------------------------------------------------------------------------
(* The files get_changed_files returns *)

MaxFiles == 2
MaxTotalTx == 3

TxLacksInputs == [BaseTx EXCEPT !.civ = "empty", !.name = "transfer"]
TxLacksMethod ==
    [BaseTx EXCEPT !.cm = "absent", !.name = "absent", !.to = GaugeAdder,
                   !.gauge = "0xGauge", !.gaugeType = "Ethereum"]
TxTransfer == [BaseTx EXCEPT !.name = "transfer"]
TxAddUnverified ==
    [BaseTx EXCEPT !.name = "addGauge", !.to = GaugeAdder, !.gauge = "0xGauge",
                   !.gaugeType = "Arbitrum", !.gaugeName = "ArbitrumRootGauge",
                   !.lookup = "unverified"]
TxAddFails == [TxAddUnverified EXCEPT !.lookup = "value_error"]
TxTransferToAdder ==
    [BaseTx EXCEPT !.name = "transfer", !.to = GaugeAdder, !.gauge = "0xGauge",
                   !.gaugeType = "Ethereum"]
TxBribeUnknownProposal ==
    [BaseTx EXCEPT !.name = "depositBribe", !.to = AuraBriber, !.proposal = "unknown"]

PipelineTxs ==
    {BaseTx, TxLacksInputs, TxLacksMethod, TxTransfer, TxAddUnverified, TxAddFails, TxTransferToAdder,
     TxBribeUnknownProposal}

PipelineChainIds == {"1"}

FileStems == <<"BIPs/a", "BIPs/b", "BIPs/c", "BIPs/d">>

TxLists == UNION { [1..n -> PipelineTxs] : n \in 0..MaxTotalTx }

\* The ways to cut a list of len transactions into n files: the position of
\* the last transaction of each file, the last file ending the list.
Cuts(n, len) ==
    { c \in [1..n -> 0..len] :
        /\ c[n] = len
        /\ \A k \in 1..(n - 1) : c[k] <= c[k + 1] }

\* The list t cut at c into n files, with distinct names and chain ids ch.
MakeFiles(n, t, c, ch) ==
    [k \in 1..n |->
        [file_name |-> <<FileStems[k], ".json">>,
         chainId |-> ch[k],
         transactions |-> SubSeq(t, (IF k = 1 THEN 0 ELSE c[k - 1]) + 1, c[k])]]

\* get_changed_files: at most MaxFiles files holding at most MaxTotalTx
\* transactions in all.
GetChangedFiles(fs) ==
    \/ fs = <<>>
    \/ \E n \in 1..MaxFiles : \E t \in TxLists :
         \E c \in Cuts(n, Len(t)) : \E ch \in [1..n -> PipelineChainIds] :
            fs = MakeFiles(n, t, c, ch)

----------------------------------------------------------------------------
(* report_gauges.main *)

Init ==
    /\ GetChangedFiles(files)
    /\ pc = "handler"
    /\ all_reports = <<>>
    /\ calls = <<>>
    /\ uncovered = <<>>
    /\ merged_files = <<>>
    /\ payload = <<>>
    /\ written = <<>>
    /\ ctx = [tx |-> BaseTx, chain_id |-> "1"] /\ cres = NotApplied
    /\ csv = <<>> /\ bribes = <<>> /\ bpc = BribeOff /\ safe_calls = <<>>

\* all_reports.append(handler(files, ...)), the next handler of the six.
RunHandler ==
    /\ pc = "handler"
    /\ LET h == HandlerOrder[Len(all_reports) + 1]
           r == Handler(files, h)
       IN  /\ calls' = Append(calls, [h |-> h, log |-> r.log])
           /\ IF r.raised
              THEN pc' = "aborted" /\ UNCHANGED all_reports
              ELSE /\ all_reports' = Append(all_reports, r.reports)
                   /\ pc' = IF Len(all_reports) + 1 = Len(HandlerOrder)
                            THEN "catchall" ELSE "handler"
    /\ UNCHANGED <<files, uncovered, merged_files, payload, written, classVars, bribeVars>>

\* no_reports_report = parse_no_reports_report(all_reports, files), appended.
CatchAll ==
    /\ pc = "catchall"
    /\ LET r == ParseNoReportsReport(all_reports, files)
       IN  /\ uncovered' = r.uncovered
           /\ calls' = Append(calls, [h |-> "no_reports", log |-> <<>>])
           /\ IF r.raised
              THEN pc' = "aborted" /\ UNCHANGED all_reports
              ELSE pc' = "merge" /\ all_reports' = Append(all_reports, r.reports)
    /\ UNCHANGED <<files, merged_files, payload, written, classVars, bribeVars>>

Merge ==
    /\ pc = "merge"
    /\ merged_files' = MergeFiles(all_reports)
    /\ pc' = "write_payload"
    /\ UNCHANGED <<files, all_reports, calls, uncovered, payload, written, classVars, bribeVars>>

\* payload_reports.txt is written when merged_files is not empty.
WritePayload ==
    /\ pc = "write_payload"
    /\ payload' = IF merged_files # <<>> THEN ConcatTexts(merged_files, 1) ELSE payload
    /\ pc' = "write_reports"
    /\ UNCHANGED <<files, all_reports, calls, uncovered, merged_files, written, classVars, bribeVars>>

\* One turn of the loop that writes the report files.
WriteReport ==
    /\ pc = "write_reports"
    /\ Len(written) < Len(merged_files)
    /\ LET m == merged_files[Len(written) + 1]
       IN  written' = Append(written, [name |-> ReplaceJson(m.file_name), content |-> m.text])
    /\ UNCHANGED <<files, pc, all_reports, calls, uncovered, merged_files, payload,
                   classVars, bribeVars>>

Finish ==
    /\ pc = "write_reports"
    /\ Len(written) = Len(merged_files)
    /\ pc' = "done"
    /\ UNCHANGED <<files, all_reports, calls, uncovered, merged_files, payload, written,
                   classVars, bribeVars>>

Next ==
    \/ RunHandler
    \/ CatchAll
    \/ Merge
    \/ WritePayload
    \/ WriteReport
    \/ Finish

Spec == Init /\ [][Next]_vars

----------------------------------------------------------------------------
(* Claims on the report pipeline *)

\* The six handlers have returned and the catch-all has returned.
CatchAllDone == pc \in {"merge", "write_payload", "write_reports", "done"}

\* The catch-all has been called (it may have raised).
CatchAllCalled == \E n \in DOMAIN calls : calls[n].h = "no_reports"

\* The reports of the six handlers.
HandlerReports == SubSeq(all_reports, 1, IF Len(all_reports) < 6 THEN Len(all_reports) ELSE 6)

\* The indexes of file k that some handler reported.
HandlerCovered(k) ==
    { i \in 0 .. (Len(files[k].transactions) - 1) :
        \E r \in DOMAIN HandlerReports : \E e \in DOMAIN HandlerReports[r] :
            /\ HandlerReports[r][e].file_name = files[k].file_name
            /\ \E o \in DOMAIN HandlerReports[r][e].outputs :
                 HandlerReports[r][e].outputs[o].tx_index = i }

\* The uncovered indexes the catch-all recorded for file k.
UncoveredOf(k) ==
    UNION { uncovered[u].indexes :
              u \in { v \in DOMAIN uncovered : uncovered[v].file_name = files[k].file_name } }

\* C1: the uncovered-index set the catch-all computes for a file is the set
\* difference between the file's indices 0 .. len-1 and the indices the six
\* handlers claimed.
C1_UncoveredIsSetDifference ==
    CatchAllCalled =>
        \A k \in DOMAIN files :
            (\E u \in DOMAIN uncovered : uncovered[u].file_name = files[k].file_name)
            => UncoveredOf(k) = (0 .. (Len(files[k].transactions) - 1)) \ HandlerCovered(k)


HandlerNames ==
    {"added", "removed", "transfer", "permissions", "hh_brib", "set_recipient_list"}

\* The report the catch-all returned.
NoReportsReport == all_reports[7]

\* The number of uncovered indexes of file k up to index i: the place of the
\* row of transaction i in the catch-all report of the file.
RankIn(k, i) == Cardinality({ j \in UncoveredOf(k) : j <= i })

\* C3: a transaction without contractInputsValues or without contractMethod
\* (absent or empty) gets None from each of the six handlers and, once the
\* catch-all has returned, its index is uncovered and its row is in the
\* catch-all report of its file.
C3_LackingFieldsGoToCatchAll ==
    \A k \in DOMAIN files : \A p \in DOMAIN files[k].transactions :
        LET tx == files[k].transactions[p]
        IN  (tx.civ \in {"absent", "empty"} \/ tx.cm \in {"absent", "empty"}) =>
              /\ \A h \in HandlerNames :
                    HandlerFunc(h, tx, files[k].chainId, p - 1).kind = "none"
              /\ CatchAllDone =>
                    /\ (p - 1) \notin HandlerCovered(k)
                    /\ (p - 1) \in UncoveredOf(k)
                    /\ \E e \in DOMAIN NoReportsReport :
                         /\ NoReportsReport[e].file_name = files[k].file_name
                         /\ Len(NoReportsReport[e].outputs) = Cardinality(UncoveredOf(k))
                         /\ NoReportsReport[e].outputs[RankIn(k, p - 1)] = NoReportRow(tx)

\* A finished run whose file holds a transaction lacking its inputs after a
\* transaction a handler reported, and in which a transaction lacking its
\* contractMethod is left to the catch-all as well.
C3_Witness ==
    /\ pc = "done"
    /\ \E k \in DOMAIN files :
         /\ Len(files[k].transactions) = 2
         /\ files[k].transactions[2].civ = "empty"
         /\ \E j \in DOMAIN files : \E p \in DOMAIN files[j].transactions :
              files[j].transactions[p].cm = "absent" /\ (p - 1) \in UncoveredOf(j)
         /\ HandlerCovered(k) = {0}
         /\ UncoveredOf(k) = {1}

\* The transaction reaches _extract_pool through the gauge adder with a
\* sidechain gauge type.
SidechainAdd(tx) ==
    /\ tx.civ = "dict" /\ tx.cm = "dict" /\ tx.name # "absent"
    /\ tx.gauge = "0xGauge" /\ tx.to = GaugeAdder
    /\ tx.gaugeType \in {"Polygon", "Arbitrum", "Optimism", "Gnosis", "PolygonZkEvm",
                         "Avalanche", "Base"}

IsSentinelPool(pool) ==
    /\ pool.pool_name = "CONTRACT_UNVERIFIED" /\ pool.pool_symbol = "CONTRACT_UNVERIFIED"
    /\ pool.pool_id = "CONTRACT_UNVERIFIED" /\ pool.pool_address = "CONTRACT_UNVERIFIED"
    /\ pool.a_factor = "CONTRACT_UNVERIFIED" /\ pool.fee = "CONTRACT_UNVERIFIED"
    /\ pool.tokens = <<>> /\ pool.rate_providers = <<>>

\* The added handler reported transaction p of file k with the sentinel pool.
SentinelRowFor(k, p) ==
    /\ Len(all_reports) >= 1
    /\ \E e \in DOMAIN all_reports[1] :
         /\ all_reports[1][e].file_name = files[k].file_name
         /\ \E o \in DOMAIN all_reports[1][e].outputs :
              /\ all_reports[1][e].outputs[o].tx_index = p - 1
              /\ IsSentinelPool(all_reports[1][e].outputs[o].pool)

\* C4: for a sidechain gauge, the "not verified" ValueError is caught, the
\* pool fields become CONTRACT_UNVERIFIED (tokens and rate providers empty)
\* and the row is still returned; any other failure of the lookup leaves the
\* handler and ends the run with no report written.
C4_UnverifiedCaughtOthersAbort ==
    /\ \A k \in DOMAIN files : \A p \in DOMAIN files[k].transactions :
         LET tx == files[k].transactions[p]
         IN  SidechainAdd(tx) =>
               /\ tx.lookup = "unverified" =>
                    /\ ParseAddedTransaction(tx, files[k].chainId, p - 1).kind = "row"
                    /\ Len(all_reports) >= 1 => SentinelRowFor(k, p)
               /\ tx.lookup \in {"value_error", "attribute_error"} =>
                    /\ ParseAddedTransaction(tx, files[k].chainId, p - 1).kind = "raise"
                    /\ all_reports = <<>>
                    /\ pc \in {"handler", "aborted"}
    /\ pc = "aborted" => written = <<>> /\ payload = <<>> /\ merged_files = <<>>

\* A finished run that reported an unverified sidechain gauge.
C4_Witness ==
    /\ pc = "done"
    /\ \E k \in DOMAIN files : \E p \in DOMAIN files[k].transactions :
         /\ SidechainAdd(files[k].transactions[p])
         /\ files[k].transactions[p].lookup = "unverified"
         /\ SentinelRowFor(k, p)

\* The report texts all_reports holds for a file, one report after the other.
RECURSIVE TextsOf(_, _)
TextsOf(file_name, r) ==
    IF r > Len(all_reports) THEN <<>>
    ELSE LET hit == { e \in DOMAIN all_reports[r] : all_reports[r][e].file_name = file_name }
         IN  (IF hit = {} THEN <<>> ELSE all_reports[r][CHOOSE e \in hit : TRUE].report_text)
             \o TextsOf(file_name, r + 1)

RECURSIVE ContentsFrom(_)
ContentsFrom(n) == IF n > Len(written) THEN <<>> ELSE written[n].content \o ContentsFrom(n + 1)

\* C5: after main completes there is exactly one report file per input file,
\* named by replacing ".json" with ".report.txt", and payload_reports.txt
\* holds the reports of all those files.
C5_OneReportPerFile ==
    pc = "done" =>
        /\ Len(written) = Len(files)
        /\ \A k \in DOMAIN files :
             \E n \in DOMAIN written :
                /\ written[n].name = <<files[k].file_name[1], ".report.txt">>
                /\ written[n].content = TextsOf(files[k].file_name, 1)
                /\ written[n].content # <<>>
                /\ \A m \in DOMAIN written : written[m].name = written[n].name => m = n
        /\ payload = ContentsFrom(1)

\* A finished run over two files.
C5_Witness == pc = "done" /\ Len(files) = 2 /\ Len(written) = 2 /\ payload # <<>>


\* The handler_func calls handler makes over the files from file k on:
\* every transaction of every file, in list order, tx_index counting from 0.
RECURSIVE ExpectedCalls(_, _)
ExpectedCalls(h, k) ==
    IF k > Len(files) THEN <<>>
    ELSE [p \in 1..Len(files[k].transactions) |->
             [h |-> h, file |-> files[k].file_name, pos |-> p, tx_index |-> p - 1]]
         \o ExpectedCalls(h, k + 1)

IsPrefix(a, b) == Len(a) <= Len(b) /\ a = SubSeq(b, 1, Len(a))

\* C6: handler goes through the files in list order and, within a file,
\* calls handler_func once per transaction in list order with tx_index equal
\* to the transaction's position (0, 1, 2, ...), whether or not the previous
\* call returned data; the outputs of a file are in increasing tx_index order.
C6_HandlerCallsInOrder ==
    /\ \A n \in DOMAIN calls :
         calls[n].h # "no_reports" =>
            /\ IsPrefix(calls[n].log, ExpectedCalls(calls[n].h, 1))
            /\ n <= Len(all_reports) => calls[n].log = ExpectedCalls(calls[n].h, 1)
    /\ \A r \in DOMAIN HandlerReports : \A e \in DOMAIN HandlerReports[r] :
         \A o \in DOMAIN HandlerReports[r][e].outputs :
            o > 1 => HandlerReports[r][e].outputs[o - 1].tx_index
                        < HandlerReports[r][e].outputs[o].tx_index

\* A handler that returned data for the third transaction after two calls
\* that returned none.
C6_Witness ==
    \E n \in DOMAIN calls : \E k \in DOMAIN files :
        /\ n <= Len(all_reports) /\ n <= 6
        /\ Len(calls[n].log) = 3
        /\ Len(files[k].transactions) = 3
        /\ \E e \in DOMAIN all_reports[n] :
             /\ all_reports[n][e].file_name = files[k].file_name
             /\ Len(all_reports[n][e].outputs) = 1
             /\ all_reports[n][e].outputs[1].tx_index = 2

\* C7: the catch-all is called only after the six handlers, in the order
\* added, removed, transfer, permissions, hh_brib, set_recipient_list, have
\* each finished over every file, and with the reports of all six; nothing
\* is written before the catch-all has returned.
C7_CatchAllAfterSixHandlers ==
    /\ \A n \in DOMAIN calls :
         calls[n].h = "no_reports" =>
            /\ n = 7
            /\ [m \in 1..6 |-> calls[m].h] =
                  <<"added", "removed", "transfer", "permissions", "hh_brib",
                    "set_recipient_list">>
            /\ \A m \in 1..6 : calls[m].log = ExpectedCalls(calls[m].h, 1)
            /\ Len(all_reports) >= 6
    /\ pc = "catchall" => Len(all_reports) = 6 /\ Len(calls) = 6
    /\ (written # <<>> \/ payload # <<>> \/ merged_files # <<>>) =>
          CatchAllDone /\ CatchAllCalled /\ Len(all_reports) = 7

\* The catch-all has run over two files with transactions and the first
\* report file is written.
C7_Witness ==
    /\ CatchAllCalled
    /\ Len(written) = 1
    /\ Len(files) = 2
    /\ \A k \in DOMAIN files : files[k].transactions # <<>>

\* C10: once the six handlers and the catch-all have run, every index of a
\* file with at least one transaction is reported by a handler or by the
\* catch-all and never by both.
C10_CoveredAndUncoveredPartition ==
    CatchAllDone =>
        \A k \in DOMAIN files :
            Len(files[k].transactions) >= 1 =>
                /\ HandlerCovered(k) \cup UncoveredOf(k) = 0 .. (Len(files[k].transactions) - 1)
                /\ HandlerCovered(k) \cap UncoveredOf(k) = {}
                /\ (UncoveredOf(k) # {}) <=>
                      (\E e \in DOMAIN NoReportsReport :
                          /\ NoReportsReport[e].file_name = files[k].file_name
                          /\ Len(NoReportsReport[e].outputs) = Cardinality(UncoveredOf(k)))

\* A file whose first index a handler reported and whose second index the
\* catch-all reported, beside a file the handlers covered entirely.
C10_Witness ==
    /\ CatchAllDone
    /\ \E k \in DOMAIN files : HandlerCovered(k) = {0} /\ UncoveredOf(k) = {1}
    /\ \E k \in DOMAIN files : HandlerCovered(k) = {0} /\ UncoveredOf(k) = {}

\* C11: every index the catch-all records as uncovered for a file is a
\* position of the file's transaction list (0 <= i < len(transactions)), for
\* a file without transactions and for a file no handler reported as for any
\* other, so that transactions[i] is never read out of range.
C11_UncoveredIndexesAreValid ==
    \A u \in DOMAIN uncovered : \A k \in DOMAIN files :
        uncovered[u].file_name = files[k].file_name =>
            \A i \in uncovered[u].indexes : 0 <= i /\ i < Len(files[k].transactions)

\* The handlers (by their place in all_reports) whose report holds a row for
\* index i of file k.
ClaimedBy(k, i) ==
    { r \in DOMAIN HandlerReports :
        \E e \in DOMAIN HandlerReports[r] :
            /\ HandlerReports[r][e].file_name = files[k].file_name
            /\ \E o \in DOMAIN HandlerReports[r][e].outputs :
                 HandlerReports[r][e].outputs[o].tx_index = i }

----------------------------------------------------------------------------
(* SpecIncentives: main over files of bribe deposits and recipient lists *)

\* depositBribe sent to an address that is neither briber.
TxBribeOther == [BaseTx EXCEPT !.name = "depositBribe"]
TxBribeKnown == [BaseTx EXCEPT !.name = "depositBribe", !.to = BalBriber]
TxRecipients == [BaseTx EXCEPT !.name = "setRecipientList", !.lists = <<2, 2, 2>>]
TxRecipientsMismatch == [TxRecipients EXCEPT !.lists = <<2, 2, 1>>]

IncentiveTxs ==
    {BaseTx, TxBribeOther, TxBribeKnown, TxBribeUnknownProposal, TxRecipients,
     TxRecipientsMismatch}

IncentiveLists == UNION { [1..n -> IncentiveTxs] : n \in 0..MaxTotalTx }

\* get_changed_files over the incentive transactions.
GetChangedIncentiveFiles(fs) ==
    \/ fs = <<>>
    \/ \E n \in 1..MaxFiles : \E t \in IncentiveLists :
         \E c \in Cuts(n, Len(t)) : \E ch \in [1..n -> PipelineChainIds] :
            fs = MakeFiles(n, t, c, ch)

InitIncentives ==
    /\ GetChangedIncentiveFiles(files)
    /\ pc = "handler"
    /\ all_reports = <<>>
    /\ calls = <<>>
    /\ uncovered = <<>>
    /\ merged_files = <<>>
    /\ payload = <<>>
    /\ written = <<>>
    /\ ctx = [tx |-> BaseTx, chain_id |-> "1"] /\ cres = NotApplied
    /\ csv = <<>> /\ bribes = <<>> /\ bpc = BribeOff /\ safe_calls = <<>>

SpecIncentives == InitIncentives /\ [][Next]_vars

\* The rows the hh_brib handler reported for index i of file k.
BribeRows(k, i) ==
    IF Len(all_reports) < 5 THEN {}
    ELSE UNION { { all_reports[5][e].outputs[o] :
                     o \in { n \in DOMAIN all_reports[5][e].outputs :
                               all_reports[5][e].outputs[n].tx_index = i } } :
                 e \in { d \in DOMAIN all_reports[5] :
                           all_reports[5][d].file_name = files[k].file_name } }

\* The rows of the catch-all report for index i of file k.
CatchAllRows(k, i) ==
    IF i \notin UncoveredOf(k) THEN {}
    ELSE { NoReportsReport[e].outputs[RankIn(k, i)] :
             e \in { d \in DOMAIN NoReportsReport :
                       NoReportsReport[d].file_name = files[k].file_name } }

\* C13: for a depositBribe transaction, _parse_hh_brib returns None when the
\* `to` address is neither briber, and the catch-all then reports the
\* transaction; when the market is known and the proposal is not in its map
\* it returns a row with an error field and the tx_index, so the index is
\* covered and the catch-all does not report it.
C13_BribeMarketAndProposal ==
    \A k \in DOMAIN files : \A p \in DOMAIN files[k].transactions :
        LET tx == files[k].transactions[p]
            i == p - 1
            res == ParseHhBrib(tx, files[k].chainId, i)
        IN  (tx.civ = "dict" /\ tx.cm = "dict" /\ tx.name = "depositBribe") =>
              /\ (tx.to \notin {AuraBriber, BalBriber}) =>
                    /\ res.kind = "none"
                    /\ BribeRows(k, i) = {}
                    /\ (CatchAllDone /\ ClaimedBy(k, i) = {}) =>
                          /\ i \in UncoveredOf(k)
                          /\ CatchAllRows(k, i) = {NoReportRow(tx)}
              /\ (tx.to \in {AuraBriber, BalBriber} /\ tx.proposal = "unknown") =>
                    /\ res.kind = "row"
                    /\ res.row.error # "-"
                    /\ res.row.tx_index = i
                    /\ (Len(all_reports) >= 5) =>
                          /\ BribeRows(k, i) = {res.row}
                          /\ 5 \in ClaimedBy(k, i)
                    /\ CatchAllDone =>
                          /\ i \in HandlerCovered(k)
                          /\ i \notin UncoveredOf(k)
                          /\ CatchAllRows(k, i) = {}

\* A finished run over a file holding a bribe to an unknown address, left to
\* the catch-all, and a bribe for an unknown proposal, reported with its
\* error by the hh_brib handler only.
C13_Witness ==
    /\ pc = "done"
    /\ \E k \in DOMAIN files : \E p, q \in DOMAIN files[k].transactions :
         /\ files[k].transactions[p] = TxBribeOther
         /\ (p - 1) \in UncoveredOf(k)
         /\ CatchAllRows(k, p - 1) = {NoReportRow(TxBribeOther)}
         /\ files[k].transactions[q] = TxBribeUnknownProposal
         /\ ClaimedBy(k, q - 1) = {5}
         /\ \E row \in BribeRows(k, q - 1) : row.error = "Can not find proposal"
         /\ (q - 1) \notin UncoveredOf(k)

\* A setRecipientList transaction with both of its dicts.
IsRecipientList(tx) == tx.civ = "dict" /\ tx.cm = "dict" /\ tx.name = "setRecipientList"

\* The three lists of the transaction do not have one length.
LengthsDiffer(tx) == tx.lists[1] # tx.lists[2] \/ tx.lists[1] # tx.lists[3]

\* Some file holds a setRecipientList transaction whose lengths differ.
SomeLengthsDiffer ==
    \E k \in DOMAIN files : \E p \in DOMAIN files[k].transactions :
        IsRecipientList(files[k].transactions[p]) /\ LengthsDiffer(files[k].transactions[p])

\* C14: _parse_set_recipient_list returns a row only when gaugeAddresses,
\* amountsPerPeriod and maxPeriods have the same length; when they differ the
\* assertion fails, the set_recipient_list handler returns no report for any
\* transaction, and the run ends before the catch-all is called and before
\* any report is merged or written.
C14_ListLengthsAsserted ==
    /\ \A k \in DOMAIN files : \A p \in DOMAIN files[k].transactions :
         LET tx == files[k].transactions[p]
             res == ParseSetRecipientList(tx, files[k].chainId, p - 1)
         IN  /\ res.kind = "row" => IsRecipientList(tx) /\ ~LengthsDiffer(tx)
             /\ (IsRecipientList(tx) /\ LengthsDiffer(tx)) =>
                   res.kind = "raise" /\ res.exc = "AssertionError"
    /\ SomeLengthsDiffer =>
         /\ Len(all_reports) <= 5
         /\ ~CatchAllCalled
         /\ pc \in {"handler", "aborted"}
         /\ Len(calls) = 6 => pc = "aborted"
         /\ merged_files = <<>> /\ payload = <<>> /\ written = <<>>

\* The run has ended in the set_recipient_list handler, which had parsed a
\* well-formed recipient list before it met the one whose lengths differ.
C14_Witness ==
    /\ pc = "aborted"
    /\ Len(calls) = 6 /\ calls[6].h = "set_recipient_list"
    /\ Len(all_reports) = 5
    /\ \E k \in DOMAIN files :
         /\ Len(files[k].transactions) >= 2
         /\ files[k].transactions[1] = TxRecipients
         /\ files[k].transactions[2] = TxRecipientsMismatch
         /\ calls[6].log[Len(calls[6].log)].file = files[k].file_name
         /\ calls[6].log[Len(calls[6].log)].pos = 2

----------------------------------------------------------------------------
(* Claims on the classifiers: unknown gauge types and chains *)

\* C15: _parse_added_transaction, on a gauge-add transaction sent to the
\* GaugeAdder whose gaugeType is non-empty and not a key of TYPE_TO_CHAIN_MAP,
\* returns a row whose chain is "mainnet" and does not raise.
C15_UnmappedGaugeTypeIsMainnet ==
    (/\ cres.h = "added"
     /\ ctx.tx.civ = "dict" /\ ctx.tx.cm = "dict" /\ ctx.tx.name # "absent"
     /\ ctx.tx.gauge = "0xGauge"
     /\ ctx.tx.to = GaugeAdder
     /\ ctx.tx.gaugeType # "absent"
     /\ ctx.tx.gaugeType \notin DOMAIN TYPE_TO_CHAIN_MAP)
    => (cres.res.kind = "row" /\ cres.res.row.chain = "mainnet")

\* C16: _parse_transfer, on a transaction named "transfer" whose chain_id
\* matches no chain of the address book, returns None: it neither raises nor
\* returns a row.
C16_TransferUnknownChainIsNone ==
    (/\ cres.h = "transfer"
     /\ ctx.tx.civ = "dict" /\ ctx.tx.cm = "dict"
     /\ ctx.tx.name = "transfer"
     /\ ctx.chain_id \notin KnownChainIds)
    => cres.res.kind = "none"

====
